---- MODULE Spec2Model ----
(***************************************************************************)
(* A model of the octra wallet client (src/cli.py, class WalletClient):    *)
(* the account-state cache (get_status), the history reconciler            *)
(* (get_history), the single and the batch submission pipelines and the    *)
(* main loop that drives them (run).                                       *)
(*                                                                         *)
(* Time is the wall clock in whole seconds.  Python's None is modelled by  *)
(* the integer NoneVal, floats by integers: balances in whole tokens, the   *)
(* amounts the user types in hundredths of a token.  An HTTP response is   *)
(* the triple (status, text, json_data) that http_request returns, reduced *)
(* to the parts the handlers read.                                         *)
(***************************************************************************)
EXTENDS Integers, Sequences, FiniteSets, TLC

VARIABLES
    now,                  \* the wall clock, time.time()
    pc,                   \* position of the main coroutine (run / a handler)
    current_nonce,        \* self.current_nonce
    current_balance,      \* self.current_balance
    last_update,          \* self.last_update
    last_history_update,  \* self.last_history_update
    transaction_history,  \* self.transaction_history
    batch,                \* locals of send_multi_transaction while it runs
    tasks,                \* the submissions of the chunk being gathered
    status_call,          \* observation: the get_status call of the last step
    fresh_since,          \* observation: time of the last successful
                          \* resolution of get_status not invalidated since
    resolved_once,        \* observation: some get_status call has resolved
    history_call,         \* observation: the get_history call of the last step
    requests,             \* observation: the HTTP requests of the last step
    sends,                \* number of send commands confirmed in the session
    posted,               \* observation: the nonces POSTed to /send-tx by the
                          \* send command in progress or just ended
    send_call,            \* observation: the send_transaction call of the
                          \* single send of the last step
    history_fresh_since,  \* observation: time of the last successful history
                          \* refresh not invalidated since
    stop_flag,            \* self.stop_flag, a threading.Event
    asked,                \* observation: the amount (the total, for a batch)
                          \* the send command of the last step was asked for
    screen,               \* observation: what the send command in progress
                          \* or just ended did to its spinner and displayed
    acceptances           \* observation: the highest nonce among the
                          \* transactions accepted in the session, and
                          \* whether one was accepted at or below it later

vars == <<now, pc, current_nonce, current_balance, last_update,
          last_history_update, transaction_history, batch, tasks,
          status_call, fresh_since, resolved_once, history_call,
          requests, sends, posted, send_call, history_fresh_since,
          stop_flag, asked, screen, acceptances>>

-----------------------------------------------------------------------------
(* Bounds of the model *)

\* the clock reading when the client starts (more than an hour after 0)
StartTime == 4000
\* largest nonce the account endpoint or the pending pool reports
MaxNonce == 2
\* longest reference list of the small history responses
MaxRefs == 2
\* length of the one long reference list
BulkRefs == 50
\* largest recipient list of a batch send
MaxRecipients == 7
\* send commands confirmed in one session
MaxSends == 1
\* send commands confirmed in a session of several sends
SessionSends == 2

(* Program constants *)

MICRO_UNIT == 1000000
\* hundredths per token: the resolution of the amounts the model types in
CENTS == 100
STATUS_TTL == 30
HISTORY_TTL == 60
ONE_HOUR == 3600
HISTORY_LIMIT == 50
batch_size == 5

NoneVal == -1
Me == "self.address"
Other == "oct_other"

\* the clock readings at which the model observes the client
StatusInstants == {StartTime, StartTime + 5, StartTime + STATUS_TTL}
HistoryInstants ==
    {StartTime, StartTime + HISTORY_TTL, StartTime + ONE_HOUR + HISTORY_TTL}
RefreshInstants == {StartTime, StartTime + 5, StartTime + HISTORY_TTL}

SetMax(S) == CHOOSE m \in S : \A x \in S : x <= m

-----------------------------------------------------------------------------
(* Responses of GET /balance/{address} and GET /staging *)

\* a whitespace-separated token of a text body: its digits, or not numeric
Token(isdigit, val) == [isdigit |-> isdigit, val |-> val]

AcctJson(st, n, b) ==
    [exc |-> FALSE, status |-> st, json |-> TRUE, nonce |-> n, balance |-> b,
     parts |-> <<>>]
AcctText(st, toks) ==
    [exc |-> FALSE, status |-> st, json |-> FALSE, nonce |-> 0, balance |-> 0,
     parts |-> toks]
AcctRaised ==
    [exc |-> TRUE, status |-> 0, json |-> FALSE, nonce |-> 0, balance |-> 0,
     parts |-> <<>>]

StagingJson(st, txs) == [exc |-> FALSE, status |-> st, json |-> TRUE, txs |-> txs]
StagingNoJson(st) == [exc |-> FALSE, status |-> st, json |-> FALSE, txs |-> {}]
StagingRaised == [exc |-> TRUE, status |-> 0, json |-> FALSE, txs |-> {}]

\* results[i] if not isinstance(results[i], Exception) else (0, ..., None)
GatherResult(r) ==
    IF r.exc THEN [r EXCEPT !.exc = FALSE, !.status = 0, !.json = FALSE] ELSE r

\* [tx for tx in staged_transactions if tx.get('from') == self.address]
OurTxs(staging) == {tx \in staging.txs : tx.from = Me}

\* float(parts[0]) if parts[0].replace('.', '').isdigit() else 0.0
ParseBalance(tok) == IF tok.isdigit THEN tok.val ELSE 0
\* int(parts[1]) if parts[1].isdigit() else 0
ParseNonce(tok) == IF tok.isdigit THEN tok.val ELSE 0

\* the comparison of the hit test turned around
CacheFresh_Inverted(cb, lu, t) == cb # NoneVal /\ (t - lu) > STATUS_TTL

\* the cache hit test of get_status
CacheFresh(cb, lu, t) == cb # NoneVal /\ (t - lu) < STATUS_TTL

\* status == 200 and json_data
IsStructured(acct) == acct.status = 200 /\ acct.json
\* every status other than 200 taken for a 404
IsNotFound_AnyError(acct) == acct.status # 200

\* elif status == 404
IsNotFound(acct) == acct.status = 404
\* elif status == 200 and text and not json_data, and len(parts) >= 2
IsTwoTokenText(acct) ==
    acct.status = 200 /\ acct.parts # <<>> /\ ~acct.json /\ Len(acct.parts) >= 2

\* the reported nonce adopted as it is, the pool not looked at
AdoptedNonce_IgnoresPool(acct, staging) == acct.nonce

\* the reported nonce dropped when the pool could not be read
AdoptedNonce_NeedsPool(acct, staging) ==
    IF staging.status = 200 /\ staging.json
    THEN SetMax({acct.nonce} \cup {tx.nonce : tx \in OurTxs(staging)})
    ELSE 0

\* the nonce adopted from a structured answer, raised to the staged maximum
AdoptedNonce(acct, staging) ==
    IF staging.status = 200 /\ staging.json /\ OurTxs(staging) # {}
    THEN SetMax({acct.nonce} \cup {tx.nonce : tx \in OurTxs(staging)})
    ELSE acct.nonce

\* the empty account adopted without its refresh time
EmptyAccount_Stale(lu, t) == [nonce |-> 0, balance |-> 0, last_update |-> lu]

\* self.current_nonce, self.current_balance, self.last_update = 0, 0.0, now
EmptyAccount(lu, t) == [nonce |-> 0, balance |-> 0, last_update |-> t]

\* get_status: the cache (cn, cb, lu) at time t, the two responses of the
\* gather; the result is the cache afterwards and what the call did
get_status(cn, cb, lu, t, acct0, staging0) ==
    LET acct == GatherResult(acct0)
        staging == GatherResult(staging0)
        Result(n, b, u, fetched) ==
            [nonce |-> n, balance |-> b, last_update |-> u, fetched |-> fetched]
    IN  IF CacheFresh(cb, lu, t)
        THEN Result(cn, cb, lu, FALSE)
        ELSE IF IsStructured(acct)
        THEN Result(AdoptedNonce(acct, staging), acct.balance, t, TRUE)
        ELSE IF IsNotFound(acct)
        THEN Result(EmptyAccount(lu, t).nonce, EmptyAccount(lu, t).balance,
                    EmptyAccount(lu, t).last_update, TRUE)
        ELSE IF IsTwoTokenText(acct)
        THEN Result(ParseNonce(acct.parts[2]), ParseBalance(acct.parts[1]), t, TRUE)
        ELSE Result(cn, cb, lu, TRUE)

\* the record of a get_status call kept in status_call; fs is fresh_since
\* when the call is made
StatusCall(cn, cb, lu, fs, t, acct, staging) ==
    LET r == get_status(cn, cb, lu, t, acct, staging)
    IN  [called |-> TRUE, at |-> t, fetched |-> r.fetched,
         acct |-> acct, staging |-> staging, fresh |-> fs,
         pre |-> [nonce |-> cn, balance |-> cb, last_update |-> lu],
         post |-> [nonce |-> r.nonce, balance |-> r.balance,
                   last_update |-> r.last_update],
         ret |-> [nonce |-> r.nonce, balance |-> r.balance]]

NoCall ==
    [called |-> FALSE, at |-> 0, fetched |-> FALSE,
     acct |-> AcctRaised, staging |-> StagingRaised, fresh |-> NoneVal,
     pre |-> [nonce |-> NoneVal, balance |-> NoneVal, last_update |-> 0],
     post |-> [nonce |-> NoneVal, balance |-> NoneVal, last_update |-> 0],
     ret |-> [nonce |-> NoneVal, balance |-> NoneVal]]

\* the account endpoint answered in a way that resolves the account state
Resolves(acct) ==
    /\ ~acct.exc
    /\ \/ acct.status = 404
       \/ acct.status = 200 /\ acct.json
       \/ acct.status = 200 /\ ~acct.json /\ Len(acct.parts) >= 2

\* fresh_since after a get_status call
FreshAfter(fs, call) ==
    IF call.fetched /\ Resolves(call.acct) THEN call.at ELSE fs

-----------------------------------------------------------------------------
(* The history reconciler *)

\* an HTTP request: method, path and, for /tx/{hash}, the hash
Req(method, path, arg) == <<method, path, arg>>

\* a history entry; an entry appended by a send has no 'epoch' key
Entry(time, hash, type, epoch) ==
    [time |-> time, hash |-> hash, type |-> type, epoch |-> epoch]

\* not tx.get('epoch'): the entry is displayed as pending
IsPending(tx) == tx.epoch = NoneVal \/ tx.epoch = 0

\* the result of GET /tx/{hash}
TxDetail(st, ts, to) ==
    [exc |-> FALSE, status |-> st, parsed |-> TRUE, timestamp |-> ts, to |-> to]
TxNoDetail(st) ==
    [exc |-> FALSE, status |-> st, parsed |-> FALSE, timestamp |-> 0, to |-> Other]
TxRaised ==
    [exc |-> TRUE, status |-> 0, parsed |-> FALSE, timestamp |-> 0, to |-> Other]

\* one element of recent_transactions, paired with the result of its
\* detail request as zip(recent_transactions, tx_results) pairs them
Ref(hash, epoch, res) == [hash |-> hash, epoch |-> epoch, res |-> res]

\* the response of GET /address/{address}?limit=20
HistJson(st, refs) ==
    [status |-> st, json |-> TRUE, recent |-> TRUE, refs |-> refs,
     text |-> TRUE, no_tx |-> FALSE]
HistJsonOther(st, no_tx) ==
    [status |-> st, json |-> TRUE, recent |-> FALSE, refs |-> <<>>,
     text |-> TRUE, no_tx |-> no_tx]
HistText(st, no_tx) ==
    [status |-> st, json |-> FALSE, recent |-> FALSE, refs |-> <<>>,
     text |-> TRUE, no_tx |-> no_tx]
HistEmpty(st) ==
    [status |-> st, json |-> FALSE, recent |-> FALSE, refs |-> <<>>,
     text |-> FALSE, no_tx |-> FALSE]

\* existing_hashes
ExistingHashes(hist) == {hist[i].hash : i \in 1..Len(hist)}

\* the loop that fills new_history
NewHistory(refs, existing) ==
    LET Fetched(ref) ==
            /\ ~ref.res.exc
            /\ ref.res.status = 200 /\ ref.res.parsed
            /\ ref.hash \notin existing
        new == SelectSeq(refs, Fetched)
    IN  [i \in 1..Len(new) |->
            Entry(new[i].res.timestamp, new[i].hash,
                  IF new[i].res.to = Me THEN "in" ELSE "out", new[i].epoch)]

\* [tx for tx in self.transaction_history if tx['time'] > one_hour_ago]
KeepRecent(hist, t) ==
    LET Recent(tx) == tx.time > t - ONE_HOUR IN SelectSeq(hist, Recent)

\* the entries of s by descending time; entries of equal time keep their order
RECURSIVE ByTimeDesc(_, _)
ByTimeDesc(s, times) ==
    IF times = {} THEN <<>>
    ELSE LET t == SetMax(times)
             At(x) == x.time = t
         IN  SelectSeq(s, At) \o ByTimeDesc(s, times \ {t})

\* sorted(..., key=time, reverse=True): stable, newest first
SortByTimeDesc(s) == ByTimeDesc(s, {s[i].time : i \in 1..Len(s)})

\* [:50]
Truncate(s) == SubSeq(s, 1, IF Len(s) < HISTORY_LIMIT THEN Len(s) ELSE HISTORY_LIMIT)

\* the merge step of get_history
MergeHistory(hist, refs, t) ==
    Truncate(SortByTimeDesc(
        NewHistory(refs, ExistingHashes(hist)) \o KeepRecent(hist, t)))

\* a skip test that looks at the history alone
HistoryFresh_AnyAge(hist, lhu, t) == hist # <<>>

\* the skip test of get_history
HistoryFresh(hist, lhu, t) == (t - lhu) < HISTORY_TTL /\ hist # <<>>

\* an early return for an empty body alone
HistFailed_OnlyEmpty(r) == ~r.json /\ ~r.text

\* if status != 200 or (not json_data and not text): return
HistFailed(r) == r.status # 200 \/ (~r.json /\ ~r.text)

\* get_history: the history and its refresh time at time t, the response of
\* the reference request (with the detail results)
get_history(hist, lhu, t, r) ==
    LET Result(h, u, q) ==
            [history |-> h, last_history_update |-> u, requests |-> q]
        address == <<Req("GET", "/address", 0)>>
        details == [i \in 1..Len(r.refs) |-> Req("GET", "/tx", r.refs[i].hash)]
    IN  IF HistoryFresh(hist, lhu, t)
        THEN Result(hist, lhu, <<>>)
        ELSE IF HistFailed(r)
        THEN Result(hist, lhu, address)
        ELSE IF r.json /\ r.recent
        THEN Result(MergeHistory(hist, r.refs, t), t, address \o details)
        ELSE IF r.status = 404 \/ (r.status = 200 /\ r.text /\ r.no_tx)
        THEN Result(<<>>, t, address)
        ELSE Result(hist, lhu, address)

\* the answers a get_status call can receive: none when it is a cache hit
AcctAnswers(A, lu) ==
    IF CacheFresh(current_balance, lu, now) THEN {AcctRaised} ELSE A
StagingAnswers(S, lu) ==
    IF CacheFresh(current_balance, lu, now) THEN {StagingRaised} ELSE S

\* the record of a get_history call kept in history_call; hfs is
\* history_fresh_since when the call is made
HistoryCall(hist, lhu, hfs, t, r) ==
    [called |-> TRUE, at |-> t, fresh |-> hfs, pre_update |-> lhu,
     fetched |-> get_history(hist, lhu, t, r).requests # <<>>,
     resp |-> r]

NoHistoryCall ==
    [called |-> FALSE, at |-> 0, fresh |-> NoneVal, pre_update |-> 0,
     fetched |-> FALSE, resp |-> HistEmpty(0)]

\* the reference endpoint answered with a reference list or with the
\* empty-history text
HistSucceeded(r) ==
    r.status = 200 /\ ((r.json /\ r.recent) \/ (r.text /\ r.no_tx))

\* history_fresh_since after a get_history call
HistoryFreshAfter(hfs, call) ==
    IF call.fetched /\ HistSucceeded(call.resp) THEN call.at ELSE hfs

\* the answers a get_history call can receive: none when it is skipped
HistAnswers(H, lhu) ==
    IF HistoryFresh(transaction_history, lhu, now) THEN {HistEmpty(0)} ELSE H

\* the requests of a get_status call
StatusRequests(call) ==
    IF call.fetched
    THEN <<Req("GET", "/balance", 0), Req("GET", "/staging", 0)>>
    ELSE <<>>

-----------------------------------------------------------------------------
(* Building and submitting a transaction *)

\* create_transaction: the fields of the signed transaction that the
\* pipelines read
\* the amounts of at most 11 tokens, in hundredths, whose binary64 product
\* float(text) * 1_000_000 falls short of the integer it stands for
\* (2.01 * 1_000_000 is 2009999.9999999998); the product of every other
\* amount of that range is that integer
FallsShort ==
    {201, 203, 205, 207, 209, 402, 406, 410, 414, 418,
     803, 804, 811, 812, 819, 820, 828, 829, 836, 837}

\* amount * MICRO_UNIT in binary64, for the amount of h hundredths: its
\* integer part, and whether a fraction (always above one half) is left
Scaled(h) ==
    IF h \in FallsShort
    THEN [int |-> h * (MICRO_UNIT \div CENTS) - 1, frac |-> TRUE]
    ELSE [int |-> h * (MICRO_UNIT \div CENTS), frac |-> FALSE]

\* int(x): the fraction is cut off
IntOf(x) == x.int

\* round(x): the nearest integer
RoundOf(x) == IF x.frac THEN x.int + 1 ELSE x.int

\* str(int(amount * MICRO_UNIT)), the digits kept as the number they spell
MicroUnitField(amount) == IntOf(Scaled(amount))

create_transaction(to_address, amount, nonce) ==
    [to_ |-> to_address, amount |-> MicroUnitField(amount), nonce |-> nonce,
     ou |-> IF amount < 1000 * CENTS THEN "1" ELSE "3"]

\* the word "ok" where a hash is expected
OkWord == -2

\* a submission that is posted a second time
SendRequests_Twice(tx) ==
    <<<<"POST", "/send-tx", tx.nonce>>, <<"POST", "/send-tx", tx.nonce>>>>

\* self.http_request('POST', '/send-tx', tx): the requests of one
\* send_transaction call
SendRequests(tx) == <<Req("POST", "/send-tx", tx.nonce)>>

\* the response of POST /send-tx
PostJson(st, accepted, h) ==
    [exc |-> FALSE, status |-> st, json |-> TRUE, accepted |-> accepted,
     tx_hash |-> h, ok_text |-> FALSE, token |-> 0]
PostText(st, ok, h) ==
    [exc |-> FALSE, status |-> st, json |-> FALSE, accepted |-> FALSE,
     tx_hash |-> 0, ok_text |-> ok, token |-> h]
\* a text body that is the word "ok" alone: text.split()[-1] is that word
PostOkOnly(st) ==
    [exc |-> FALSE, status |-> st, json |-> FALSE, accepted |-> FALSE,
     tx_hash |-> 0, ok_text |-> TRUE, token |-> OkWord]
PostRaised ==
    [exc |-> TRUE, status |-> 0, json |-> FALSE, accepted |-> FALSE,
     tx_hash |-> 0, ok_text |-> FALSE, token |-> 0]

\* send_transaction: (success, tx_hash) of its return value; an exception
\* raised inside it reaches the caller's gather as the exception itself
send_transaction(r) ==
    LET Result(exc, success, tx_hash, error) ==
            [exc |-> exc, success |-> success, tx_hash |-> tx_hash,
             error |-> error]
    IN  IF r.exc THEN Result(TRUE, FALSE, 0, "exception")
        ELSE IF r.status = 200 /\ r.json /\ r.accepted
        THEN Result(FALSE, TRUE, r.tx_hash, "")
        ELSE IF r.status = 200 /\ r.ok_text
        THEN Result(FALSE, TRUE, r.token, "")
        ELSE Result(FALSE, FALSE, 0,
                    IF r.json THEN "json.dumps(json_data)" ELSE "text")

\* the record of a send_transaction call kept in send_call
SendCall(resp) == [called |-> TRUE, resp |-> resp, result |-> send_transaction(resp)]

NoSendCall ==
    [called |-> FALSE, resp |-> PostRaised, result |-> send_transaction(PostRaised)]

\* the requests of asyncio.gather(*tasks) over the transactions txs
RECURSIVE GatherRequests(_)
GatherRequests(txs) ==
    IF txs = <<>> THEN <<>>
    ELSE SendRequests(Head(txs)) \o GatherRequests(Tail(txs))

\* the nonces of the POSTs to /send-tx among the requests reqs
Posts(reqs) ==
    LET IsPost(q) == q[1] = "POST" /\ q[2] = "/send-tx"
        sent == SelectSeq(reqs, IsPost)
    IN  [i \in 1..Len(sent) |-> sent[i][3]]

\* the entry a send appends to the history
SentEntry(t, tx_hash) == Entry(t, tx_hash, "out", NoneVal)

\* not balance or balance < amount
Insufficient(balance, amount) ==
    balance = NoneVal \/ balance = 0 \/ balance * CENTS < amount

\* a send that only a short balance stops
Refused_OnlyShortBalance(nonce, balance, amount) ==
    nonce # NoneVal /\ Insufficient(balance, amount)

\* the two checks after the forced refresh, each ending the handler:
\* if nonce is None: ...; if not balance or balance < amount: ...
Refused(nonce, balance, amount) ==
    nonce = NoneVal \/ Insufficient(balance, amount)

\* spin_task = asyncio.create_task(self.spinner_animation(...))
StartSpinner == <<"spinner started">>

\* the spinner cancelled and not awaited
StopSpinner_NotAwaited == <<"spinner cancelled">>

\* spin_task.cancel(), then await spin_task: spinner_animation catches the
\* CancelledError, blanks its line and returns
StopSpinner == <<"spinner cancelled", "spinner returned">>

\* the message that displays the result of a send: "accepted", "failed",
\* or the "tally" of a batch
ShowResult(message) == <<message>>

\* no transaction accepted yet
NoneAccepted == [top |-> NoneVal, repeated |-> FALSE]

\* acceptances, after the transactions with the nonces ns were accepted in
\* that order
RECURSIVE Accept(_, _)
Accept(acc, ns) ==
    IF ns = <<>> THEN acc
    ELSE Accept([top |-> IF Head(ns) > acc.top THEN Head(ns) ELSE acc.top,
                 repeated |-> acc.repeated \/ Head(ns) <= acc.top],
                Tail(ns))

-----------------------------------------------------------------------------
(* The state after construction, WalletClient.__init__ *)

NoBatch ==
    [recipients |-> <<>>, nonce |-> NoneVal, batch_idx |-> 0,
     success_count |-> 0, fail_count |-> 0, built |-> <<>>, results |-> <<>>]

Init ==
    /\ now = StartTime
    /\ pc = "run"
    /\ current_nonce = NoneVal
    /\ current_balance = NoneVal
    /\ last_update = 0
    /\ last_history_update = 0
    /\ transaction_history = <<>>
    /\ batch = NoBatch
    /\ tasks = <<>>
    /\ status_call = NoCall
    /\ fresh_since = NoneVal
    /\ resolved_once = FALSE
    /\ history_call = NoHistoryCall
    /\ requests = <<>>
    /\ sends = 0
    /\ posted = <<>>
    /\ send_call = NoSendCall
    /\ history_fresh_since = NoneVal
    /\ stop_flag = FALSE
    /\ asked = NoneVal
    /\ screen = <<>>
    /\ acceptances = NoneAccepted

-----------------------------------------------------------------------------
(* The main loop, run, and the handlers of its commands *)

\* resolved_once after a get_status call
ResolvedAfter(ro, call) == ro \/ (call.fetched /\ Resolves(call.acct))

\* the cache and its observations after the get_status call `call`, made
\* when fresh_since was fs
StatusDone(call, fs) ==
    /\ current_nonce' = call.post.nonce
    /\ current_balance' = call.post.balance
    /\ last_update' = call.post.last_update
    /\ status_call' = call
    /\ fresh_since' = FreshAfter(fs, call)
    /\ resolved_once' = ResolvedAfter(resolved_once, call)

\* a step outside the batch loop issues the requests reqs
Issue(reqs) == requests' = reqs /\ posted' = Posts(reqs)

\* a step of the batch loop issues the requests reqs
IssueInBatch(reqs) == requests' = reqs /\ posted' = posted \o Posts(reqs)

\* a step that does not call get_history
NoHistoryStep ==
    history_call' = NoHistoryCall /\ UNCHANGED history_fresh_since

\* a step outside the send commands
NoSendStep ==
    /\ send_call' = NoSendCall
    /\ asked' = NoneVal
    /\ screen' = <<>>
    /\ UNCHANGED acceptances

\* a step of the batch loop: the spinner started for the batch keeps running
InBatchStep ==
    /\ send_call' = NoSendCall
    /\ asked' = NoneVal
    /\ UNCHANGED screen

\* the console reads of a handler, async_input and wait_for_key: when one
\* is interrupted (i), its except clause sets the stop flag
ReadsConsole(I) == \E i \in I : stop_flag' = (stop_flag \/ i)

\* the amounts a send command may be given while fewer than limit sends
\* were confirmed in the session
WhileSends(limit, Amounts) == IF sends < limit THEN Amounts ELSE {}

\* a loop that never looks at the stop flag
LoopContinues_Always == TRUE

\* while not self.stop_flag.is_set()
LoopContinues == ~stop_flag

\* a step that calls neither get_status nor get_history
NoStatusCall ==
    /\ status_call' = NoCall
    /\ UNCHANGED <<current_nonce, current_balance, fresh_since, resolved_once>>

\* get_status followed by get_history, as run, display_explorer and the
\* refresh command call them; lu and lhu are the refresh times at the call
StatusThenHistory(lu, lhu, fs, hfs, acct, staging, hist_resp, more_requests) ==
    LET call == StatusCall(current_nonce, current_balance, lu, fs, now,
                           acct, staging)
        h == get_history(transaction_history, lhu, now, hist_resp)
    IN  /\ StatusDone(call, fs)
        /\ transaction_history' = h.history
        /\ last_history_update' = h.last_history_update
        /\ history_call' =
               HistoryCall(transaction_history, lhu, hfs, now, hist_resp)
        /\ history_fresh_since' =
               HistoryFreshAfter(hfs, HistoryCall(transaction_history, lhu, hfs,
                                                  now, hist_resp))
        /\ Issue(StatusRequests(call) \o h.requests \o more_requests)
        /\ NoSendStep
        /\ UNCHANGED stop_flag

\* run: the initial data load
RunStart(A, S, H) ==
    /\ pc = "run"
    /\ \E acct \in AcctAnswers(A, last_update),
          staging \in StagingAnswers(S, last_update),
          hist_resp \in HistAnswers(H, last_history_update) :
           StatusThenHistory(last_update, last_history_update, fresh_since,
                             history_fresh_since, acct, staging, hist_resp,
                             <<>>)
    /\ pc' = "display"
    /\ UNCHANGED <<now, batch, tasks, sends>>

\* display_main_screen / display_explorer, up to the command prompt
DisplayMainScreen(A, S, H) ==
    /\ pc = "display"
    /\ LoopContinues
    /\ \E acct \in AcctAnswers(A, last_update),
          staging \in StagingAnswers(S, last_update),
          hist_resp \in HistAnswers(H, last_history_update) :
           StatusThenHistory(last_update, last_history_update, fresh_since,
                             history_fresh_since, acct, staging, hist_resp,
                             <<Req("GET", "/staging", 0)>>)
    /\ pc' = "prompt"
    /\ UNCHANGED <<now, batch, tasks, sends>>

\* time passes while the client waits at the command prompt
Tick(Instants) ==
    /\ pc = "prompt"
    /\ \E t \in Instants : t > now /\ now' = t
    /\ NoStatusCall
    /\ NoHistoryStep
    /\ NoSendStep
    /\ Issue(<<>>)
    /\ UNCHANGED <<pc, last_update, last_history_update, transaction_history,
                   batch, tasks, sends, stop_flag>>

\* command '2': force refresh
CmdRefresh(A, S, H) ==
    /\ pc = "prompt"
    /\ \E acct \in A, staging \in S, hist_resp \in H :
           StatusThenHistory(0, 0, NoneVal, NoneVal, acct, staging, hist_resp,
                             <<>>)
    /\ pc' = "display"
    /\ UNCHANGED <<now, batch, tasks, sends>>

\* command '5': clear history
CmdClearHistory ==
    /\ pc = "prompt"
    /\ transaction_history' = <<>>
    /\ last_history_update' = 0
    /\ pc' = "display"
    /\ NoStatusCall
    /\ history_call' = NoHistoryCall
    /\ history_fresh_since' = NoneVal
    /\ Issue(<<>>)
    /\ NoSendStep
    /\ UNCHANGED <<now, last_update, batch, tasks, sends, stop_flag>>

\* command '4': export_keys reads the balance through get_status
CmdExportKeys(A, S, I) ==
    /\ pc = "prompt"
    /\ \E acct \in AcctAnswers(A, last_update),
          staging \in StagingAnswers(S, last_update) :
           LET call == StatusCall(current_nonce, current_balance, last_update,
                                  fresh_since, now, acct, staging)
           IN  /\ StatusDone(call, fresh_since)
               /\ Issue(StatusRequests(call))
    /\ pc' = "display"
    /\ NoHistoryStep
    /\ NoSendStep
    /\ ReadsConsole(I)
    /\ UNCHANGED <<now, last_history_update, transaction_history, batch, tasks,
                   sends>>

\* command '0', 'q' or '': leave the loop
CmdExit ==
    /\ pc = "prompt"
    /\ pc' = "exit"
    /\ NoStatusCall
    /\ NoHistoryStep
    /\ NoSendStep
    /\ Issue(<<>>)
    /\ UNCHANGED <<now, last_update, last_history_update, transaction_history,
                   batch, tasks, sends, stop_flag>>

\* the command read of display_main_screen is interrupted: async_input sets
\* the stop flag and returns '', on which run leaves the loop
CommandReadInterrupted ==
    /\ pc = "prompt"
    /\ stop_flag' = TRUE
    /\ pc' = "exit"
    /\ NoStatusCall
    /\ NoHistoryStep
    /\ NoSendStep
    /\ Issue(<<>>)
    /\ UNCHANGED <<now, last_update, last_history_update, transaction_history,
                   batch, tasks, sends>>

\* the loop test of run finds the stop flag set
RunStop ==
    /\ pc = "display"
    /\ ~LoopContinues
    /\ pc' = "exit"
    /\ NoStatusCall
    /\ NoHistoryStep
    /\ NoSendStep
    /\ Issue(<<>>)
    /\ UNCHANGED <<now, last_update, last_history_update, transaction_history,
                   batch, tasks, sends, stop_flag>>

\* the forced status refresh that opens both send commands:
\* self.last_update = 0; nonce, balance = await self.get_status()
ForcedStatus(acct, staging) ==
    StatusCall(current_nonce, current_balance, 0, NoneVal, now, acct, staging)

\* command '1': send_single_transaction.  entered: a valid address and a
\* valid amount were typed; confirm: the user answered 'y'
CmdSendSingle(A, S, P, Amounts, I) ==
    /\ pc = "prompt"
    /\ \E entered \in BOOLEAN, amount \in Amounts, acct \in A, staging \in S,
          confirm \in BOOLEAN, resp \in P :
           LET call == ForcedStatus(acct, staging)
               nonce == call.ret.nonce
               balance == call.ret.balance
               tx == create_transaction(Other, amount, nonce + 1)
               result == send_transaction(resp)
           IN  IF ~entered
               THEN /\ NoStatusCall
                    /\ Issue(<<>>)
                    /\ NoSendStep
                    /\ UNCHANGED <<last_update, transaction_history, sends>>
               ELSE IF Refused(nonce, balance, amount) \/ ~confirm
               THEN /\ StatusDone(call, NoneVal)
                    /\ Issue(StatusRequests(call))
                    /\ send_call' = NoSendCall
                    /\ asked' = amount
                    /\ screen' = <<>>
                    /\ UNCHANGED <<transaction_history, sends, acceptances>>
               ELSE /\ current_nonce' = call.post.nonce
                    /\ current_balance' = call.post.balance
                    /\ status_call' = call
                    /\ resolved_once' = ResolvedAfter(resolved_once, call)
                    /\ Issue(StatusRequests(call) \o SendRequests(tx))
                    /\ send_call' = SendCall(resp)
                    /\ asked' = amount
                    /\ sends' = sends + 1
                    /\ IF result.success
                       THEN /\ screen' = StartSpinner \o StopSpinner
                                             \o ShowResult("accepted")
                            /\ transaction_history' =
                                   Append(transaction_history,
                                          SentEntry(now, result.tx_hash))
                            /\ last_update' = 0
                            /\ fresh_since' = NoneVal
                            /\ acceptances' = Accept(acceptances, <<tx.nonce>>)
                       ELSE /\ screen' = StartSpinner \o StopSpinner
                                             \o ShowResult("failed")
                            /\ last_update' = call.post.last_update
                            /\ fresh_since' = FreshAfter(NoneVal, call)
                            /\ UNCHANGED <<transaction_history, acceptances>>
    /\ pc' = "display"
    /\ NoHistoryStep
    /\ ReadsConsole(I)
    /\ UNCHANGED <<now, last_history_update, batch, tasks>>

\* len(batches)
NumBatches(recipients) == (Len(recipients) + batch_size - 1) \div batch_size

\* a slice that runs to the end of the list
Batch_Unbounded(recipients, batch_idx) ==
    SubSeq(recipients, batch_idx * batch_size + 1, Len(recipients))

\* batches[batch_idx], the slice recipients[i:i+batch_size]
Batch(recipients, batch_idx) ==
    SubSeq(recipients, batch_idx * batch_size + 1,
           IF (batch_idx + 1) * batch_size < Len(recipients)
           THEN (batch_idx + 1) * batch_size ELSE Len(recipients))

\* the index inside the chunk taken for the index in the list
Idx_InChunk(batch_idx, i) == i

\* idx = batch_idx * batch_size + i
Idx(batch_idx, i) == batch_idx * batch_size + i

\* the recipient typed on line i of the multi send screen
Recipient(i, amount) == [to_ |-> i, amount |-> amount]

\* command '3': send_multi_transaction up to the confirmation; its locals
\* are kept in batch while the chunks are sent
CmdSendMulti(A, S, Amounts, I) ==
    /\ pc = "prompt"
    /\ \E K \in 0..MaxRecipients, amount \in Amounts, acct \in A, staging \in S,
          confirm \in BOOLEAN :
           LET recipients == [i \in 1..K |-> Recipient(i, amount)]
               total_amount == K * amount
               call == ForcedStatus(acct, staging)
               nonce == call.ret.nonce
               balance == call.ret.balance
           IN  IF K = 0
               THEN /\ NoStatusCall
                    /\ Issue(<<>>)
                    /\ NoSendStep
                    /\ pc' = "display"
                    /\ UNCHANGED <<last_update, batch, sends>>
               ELSE /\ StatusDone(call, NoneVal)
                    /\ Issue(StatusRequests(call))
                    /\ send_call' = NoSendCall
                    /\ asked' = total_amount
                    /\ UNCHANGED acceptances
                    /\ IF Refused(nonce, balance, total_amount) \/ ~confirm
                       THEN /\ pc' = "display"
                            /\ screen' = <<>>
                            /\ UNCHANGED <<batch, sends>>
                       ELSE /\ pc' = "batch_issue"
                            /\ screen' = StartSpinner
                            /\ sends' = sends + 1
                            /\ batch' = [NoBatch EXCEPT !.recipients = recipients,
                                                        !.nonce = nonce]
    /\ NoHistoryStep
    /\ ReadsConsole(I)
    /\ UNCHANGED <<now, last_history_update, transaction_history, tasks>>

\* the inner loop that builds the transactions of one chunk, and the start
\* of asyncio.gather(*tasks), which issues their POSTs
BatchIssue ==
    /\ pc = "batch_issue"
    /\ LET chunk == Batch(batch.recipients, batch.batch_idx)
           txs == [i \in 1..Len(chunk) |->
                      create_transaction(chunk[i].to_, chunk[i].amount,
                          batch.nonce + 1 + Idx(batch.batch_idx, i - 1))]
       IN  /\ tasks' = [i \in 1..Len(chunk) |->
                           [tx |-> txs[i], done |-> FALSE,
                            result |-> send_transaction(PostRaised)]]
           /\ batch' = [batch EXCEPT !.built = @ \o txs]
           /\ IssueInBatch(GatherRequests(txs))
    /\ pc' = "batch_gather"
    /\ NoStatusCall
    /\ NoHistoryStep
    /\ InBatchStep
    /\ UNCHANGED <<now, last_update, last_history_update, transaction_history,
                   sends, stop_flag, acceptances>>

\* one submission of the gathered chunk resolves
BatchResolve(P) ==
    /\ pc = "batch_gather"
    /\ \E i \in 1..Len(tasks), resp \in P :
           /\ ~tasks[i].done
           /\ tasks' = [tasks EXCEPT ![i].done = TRUE,
                                     ![i].result = send_transaction(resp)]
    /\ NoStatusCall
    /\ NoHistoryStep
    /\ InBatchStep
    /\ IssueInBatch(<<>>)
    /\ UNCHANGED <<now, pc, last_update, last_history_update,
                   transaction_history, batch, sends, stop_flag, acceptances>>

\* the entries the result loop appends for the results rs, in order
AcceptedEntries(rs, t) ==
    LET Ok(r) == ~r.exc /\ r.success
        ok == SelectSeq(rs, Ok)
    IN  [i \in 1..Len(ok) |-> SentEntry(t, ok[i].tx_hash)]

\* the nonces of the submissions ts of a chunk that were accepted, in the
\* order of the result loop
AcceptedNonces(ts) ==
    LET Ok(t) == ~t.result.exc /\ t.result.success
        ok == SelectSeq(ts, Ok)
    IN  [i \in 1..Len(ok) |-> ok[i].tx.nonce]

\* the marks the result loop draws beside the progress line, one for each
\* result, while the spinner runs
ProgressMarks(rs) ==
    [i \in 1..Len(rs) |->
        IF ~rs[i].exc /\ rs[i].success THEN "mark ok" ELSE "mark fail"]

\* success_count += 1
Successes(rs) == Cardinality({i \in 1..Len(rs) : ~rs[i].exc /\ rs[i].success})

\* raised exceptions left out of the failure count
Failures_NoExceptions(rs) ==
    Cardinality({i \in 1..Len(rs) : ~rs[i].exc /\ ~rs[i].success})

\* fail_count += 1: an exception, or success False
Failures(rs) == Cardinality({i \in 1..Len(rs) : rs[i].exc \/ ~rs[i].success})

\* the loop stopped at the first chunk that holds a failure
AfterChunk_AbortOnFailure(recipients, batch_idx, results) ==
    IF batch_idx + 1 < NumBatches(recipients) /\ Failures(results) = 0
    THEN "batch_issue" ELSE "batch_done"

\* for batch_idx, batch in enumerate(batches): where the loop goes after the
\* chunk batch_idx, whatever its results
AfterChunk(recipients, batch_idx, results) ==
    IF batch_idx + 1 < NumBatches(recipients)
    THEN "batch_issue" ELSE "batch_done"

\* gather returns once every submission of the chunk has resolved; the
\* result loop tallies and appends, then the next chunk starts
BatchCollect ==
    /\ pc = "batch_gather"
    /\ \A i \in 1..Len(tasks) : tasks[i].done
    /\ LET results == [i \in 1..Len(tasks) |-> tasks[i].result]
       IN  /\ batch' = [batch EXCEPT
                           !.success_count = @ + Successes(results),
                           !.fail_count = @ + Failures(results),
                           !.results = @ \o results,
                           !.batch_idx = @ + 1]
           /\ transaction_history' =
                  transaction_history \o AcceptedEntries(results, now)
    /\ tasks' = <<>>
    /\ pc' = AfterChunk(batch.recipients, batch.batch_idx,
                        [i \in 1..Len(tasks) |-> tasks[i].result])
    /\ NoStatusCall
    /\ NoHistoryStep
    /\ send_call' = NoSendCall
    /\ asked' = NoneVal
    /\ screen' = screen \o ProgressMarks([i \in 1..Len(tasks) |-> tasks[i].result])
    /\ acceptances' = Accept(acceptances, AcceptedNonces(tasks))
    /\ IssueInBatch(<<>>)
    /\ UNCHANGED <<now, last_update, last_history_update, sends, stop_flag>>

\* the batch ends and leaves the cache as the opening refresh filled it
BatchFinish_KeepsCache(I) ==
    /\ pc = "batch_done"
    /\ batch' = NoBatch
    /\ pc' = "display"
    /\ status_call' = NoCall
    /\ history_call' = NoHistoryCall
    /\ send_call' = NoSendCall
    /\ requests' = <<>>
    /\ asked' = NoneVal
    /\ screen' = screen \o StopSpinner \o ShowResult("tally")
    /\ \E i \in I : stop_flag' = (stop_flag \/ i)
    /\ UNCHANGED <<now, current_nonce, current_balance, last_update,
                   fresh_since, last_history_update, transaction_history,
                   tasks, resolved_once, sends, posted, history_fresh_since,
                   acceptances>>

\* after the last chunk: the spinner is stopped, the cache invalidated,
\* the tally displayed and a key awaited
BatchFinish(I) ==
    /\ pc = "batch_done"
    /\ last_update' = 0
    /\ fresh_since' = NoneVal
    /\ batch' = NoBatch
    /\ pc' = "display"
    /\ status_call' = NoCall
    /\ NoHistoryStep
    /\ send_call' = NoSendCall
    /\ asked' = NoneVal
    /\ screen' = screen \o StopSpinner \o ShowResult("tally")
    /\ ReadsConsole(I)
    /\ IssueInBatch(<<>>)
    /\ UNCHANGED <<now, current_nonce, current_balance, last_history_update,
                   transaction_history, tasks, resolved_once, sends, acceptances>>

-----------------------------------------------------------------------------
(* What the RPC service may answer *)

Balances == {0, 10}

\* the bodies of GET /balance: JSON, "<balance> <nonce>" text, malformed
\* text, an empty body; 404; a server error with a JSON body; a timeout
AcctResponses ==
    {AcctJson(200, n, b) : n \in {0, MaxNonce}, b \in Balances}
    \cup {AcctJson(500, MaxNonce, 10), AcctText(404, <<Token(FALSE, 0)>>),
          AcctText(0, <<Token(FALSE, 0)>>), AcctRaised,
          AcctText(200, <<Token(TRUE, 10), Token(TRUE, 1)>>),
          AcctText(200, <<Token(FALSE, 0)>>),
          AcctText(200, <<Token(TRUE, 10), Token(FALSE, 0)>>),
          AcctText(200, <<>>)}

StagedTxs ==
    {[from |-> Me, nonce |-> 1], [from |-> Me, nonce |-> MaxNonce],
     [from |-> Other, nonce |-> MaxNonce + 1]}

StagingResponses ==
    {StagingJson(200, txs) :
        txs \in {{}, {[from |-> Me, nonce |-> 1]}, StagedTxs,
                 {[from |-> Other, nonce |-> MaxNonce + 1]}}}
    \cup {StagingJson(500, StagedTxs), StagingNoJson(200), StagingNoJson(0),
          StagingRaised}

\* a funded account, or a service that is down
FewAcctResponses == {AcctJson(200, 1, 10), AcctText(0, <<Token(FALSE, 0)>>)}
OneAcctResponse == {AcctJson(200, 1, 10)}
FewStagingResponses == {StagingJson(200, {[from |-> Me, nonce |-> MaxNonce]})}

NumHashes == 2
Hashes == 1..NumHashes

\* the references a small response draws from: confirmed and recent,
\* confirmed and old, incoming without an epoch yet, and with a detail
\* request that fails
SomeRefs(t) ==
    {Ref(1, 7, TxDetail(200, t, Other)), Ref(1, 7, TxDetail(200, 0, Other)),
     Ref(2, 0, TxDetail(200, t, Me)), Ref(2, 7, TxNoDetail(404))}

RefsOfLen(n, t) == [1..n -> SomeRefs(t)]

\* the long reference list: BulkRefs distinct confirmed recent transactions
BulkList(t) ==
    [i \in 1..BulkRefs |-> Ref(NumHashes + i, 7, TxDetail(200, t, Other))]

HistResponses(t) ==
    UNION {{HistJson(200, refs) : refs \in RefsOfLen(n, t)} : n \in 0..MaxRefs}
    \cup {HistJson(500, <<>>), HistJsonOther(200, FALSE),
          HistJsonOther(200, TRUE), HistText(200, TRUE), HistText(200, FALSE),
          HistEmpty(200), HistText(404, TRUE), HistText(0, FALSE)}

BulkResponses(t) == {HistJson(200, BulkList(t)), HistText(0, FALSE)}

HistDown == {HistText(0, FALSE)}

\* the answers of the reference endpoint that matter to the refresh policy:
\* a reference list, an empty one, the empty-history text, a 404, a server
\* error with a JSON or a text body, a timeout or connection error
RefreshResponses(t) ==
    {HistJson(200, <<Ref(1, 7, TxDetail(200, t, Other))>>), HistJson(200, <<>>),
     HistText(200, TRUE), HistText(404, FALSE), HistJson(500, <<>>),
     HistText(500, FALSE), HistText(0, FALSE)}

PostResponses ==
    {PostJson(200, TRUE, h) : h \in Hashes}
    \cup {PostText(200, TRUE, 1), PostJson(200, FALSE, 0), PostText(0, FALSE, 0)}

\* the outcomes of a submission inside a gathered chunk
ChunkResponses == {PostJson(200, TRUE, 1), PostText(0, FALSE, 0), PostRaised}

\* the bodies of POST /send-tx: structured (accepted or not, with 200 or
\* with a server error), text ("ok <hash>", "ok" alone, an error text, with
\* 200 or with a server error), a timeout or connection error (status 0)
SendResponses ==
    {PostJson(200, TRUE, 1), PostJson(500, TRUE, 1), PostJson(200, FALSE, 0),
     PostText(200, TRUE, 1), PostText(500, TRUE, 1), PostText(200, FALSE, 0),
     PostOkOnly(200), PostText(0, FALSE, 0)}

\* the console reads of a session: none is interrupted, or any may be
NoInterrupt == {FALSE}
MayInterrupt == BOOLEAN

-----------------------------------------------------------------------------
(* Specifications *)

\* the account-state cache under every answer of the service
NextStatus ==
    \/ RunStart(AcctResponses, StagingResponses, HistDown)
    \/ DisplayMainScreen(AcctResponses, StagingResponses, HistDown)
    \/ Tick(StatusInstants)
    \/ CmdRefresh(AcctResponses, StagingResponses, HistDown)
    \/ CmdExportKeys(AcctResponses, StagingResponses, NoInterrupt)
    \/ CmdExit

SpecStatus == Init /\ [][NextStatus]_vars

\* the batch pipeline
NextBatch ==
    \/ RunStart(FewAcctResponses, FewStagingResponses, HistDown)
    \/ DisplayMainScreen(FewAcctResponses, FewStagingResponses, HistDown)
    \/ CmdSendSingle(FewAcctResponses, FewStagingResponses, SendResponses,
                     WhileSends(MaxSends, {CENTS}), MayInterrupt)
    \/ CmdSendMulti(FewAcctResponses, FewStagingResponses,
                    WhileSends(MaxSends, {CENTS, 11 * CENTS}), MayInterrupt)
    \/ BatchIssue
    \/ BatchResolve(ChunkResponses)
    \/ BatchCollect
    \/ BatchFinish(MayInterrupt)
    \/ CmdExit
    \/ CommandReadInterrupted
    \/ RunStop

SpecBatch == Init /\ [][NextBatch]_vars

\* the batch pipeline when the event loop runs every coroutine it holds and
\* every POST ends (each request is bounded by the session's timeout)
SpecBatchFair ==
    /\ SpecBatch
    /\ WF_vars(BatchIssue)
    /\ WF_vars(BatchResolve(ChunkResponses))
    /\ WF_vars(BatchCollect)

\* the history under refreshes, sends and the clear command
NextHistory ==
    \/ RunStart(OneAcctResponse, FewStagingResponses, HistResponses(now))
    \/ DisplayMainScreen(OneAcctResponse, FewStagingResponses, HistResponses(now))
    \/ Tick(HistoryInstants)
    \/ CmdRefresh(OneAcctResponse, FewStagingResponses, HistResponses(now))
    \/ CmdClearHistory
    \/ CmdSendSingle(OneAcctResponse, FewStagingResponses, PostResponses,
                     WhileSends(MaxSends, {CENTS}), NoInterrupt)
    \/ CmdExit

SpecHistory == Init /\ [][NextHistory]_vars

\* the history when the service lists many recent transactions
NextBulk ==
    \/ RunStart(OneAcctResponse, FewStagingResponses, BulkResponses(now))
    \/ DisplayMainScreen(OneAcctResponse, FewStagingResponses, BulkResponses(now))
    \/ Tick(HistoryInstants)
    \/ CmdRefresh(OneAcctResponse, FewStagingResponses, BulkResponses(now))
    \/ CmdClearHistory
    \/ CmdSendSingle(OneAcctResponse, FewStagingResponses, PostResponses,
                     WhileSends(MaxSends, {CENTS}), NoInterrupt)
    \/ CmdExit

SpecBulk == Init /\ [][NextBulk]_vars

\* the history refresh policy: its TTL and its failures
NextRefresh ==
    \/ RunStart(OneAcctResponse, FewStagingResponses, RefreshResponses(now))
    \/ DisplayMainScreen(OneAcctResponse, FewStagingResponses,
                         RefreshResponses(now))
    \/ Tick(RefreshInstants)
    \/ CmdRefresh(OneAcctResponse, FewStagingResponses, RefreshResponses(now))
    \/ CmdClearHistory
    \/ CmdSendSingle(OneAcctResponse, FewStagingResponses, PostResponses,
                     WhileSends(MaxSends, {CENTS}), NoInterrupt)
    \/ CmdExit

SpecRefresh == Init /\ [][NextRefresh]_vars

\* amounts with one or two decimals, typed on the multi send screen
DecimalAmounts == {CENTS, 1050, 110, 201}

\* the transactions a batch builds from decimal amounts
NextEncode ==
    \/ RunStart(OneAcctResponse, FewStagingResponses, HistDown)
    \/ DisplayMainScreen(OneAcctResponse, FewStagingResponses, HistDown)
    \/ CmdSendMulti(OneAcctResponse, FewStagingResponses,
                    WhileSends(MaxSends, DecimalAmounts), NoInterrupt)
    \/ BatchIssue
    \/ BatchResolve({PostJson(200, TRUE, 1)})
    \/ BatchCollect
    \/ BatchFinish(NoInterrupt)
    \/ CmdExit

SpecEncode == Init /\ [][NextEncode]_vars

\* a service that reflects every transaction it accepted: it has confirmed
\* the account's nonces up to m (none, all but the last accepted, or all),
\* and its pool holds the highest accepted nonce while that is above m
\* (get_status reads the pool's maximum only)
Confirmed ==
    {m \in 0..(IF acceptances.top > 0 THEN acceptances.top ELSE 0) :
        m = 0 \/ m >= acceptances.top - 1}
ServerAcct(m) == AcctJson(200, m, 10)
ServerPool(m) ==
    StagingJson(200, IF acceptances.top > m
                     THEN {[from |-> Me, nonce |-> acceptances.top]} ELSE {})

\* a submission is accepted, or times out
SessionPosts == {PostJson(200, TRUE, 1), PostText(0, FALSE, 0)}

\* the handlers that call get_status, answered by that service
SessionStart ==
    \E m \in Confirmed : RunStart({ServerAcct(m)}, {ServerPool(m)}, HistDown)
SessionDisplay ==
    \E m \in Confirmed :
        DisplayMainScreen({ServerAcct(m)}, {ServerPool(m)}, HistDown)
SessionSendSingle ==
    \E m \in Confirmed :
        CmdSendSingle({ServerAcct(m)}, {ServerPool(m)}, SessionPosts,
                      WhileSends(SessionSends, {CENTS}), NoInterrupt)
SessionSendMulti ==
    \E m \in Confirmed :
        CmdSendMulti({ServerAcct(m)}, {ServerPool(m)},
                     WhileSends(SessionSends, {CENTS}), NoInterrupt)

\* a session of several sends against that service
NextSession ==
    \/ SessionStart
    \/ SessionDisplay
    \/ SessionSendSingle
    \/ SessionSendMulti
    \/ BatchIssue
    \/ BatchResolve(SessionPosts)
    \/ BatchCollect
    \/ BatchFinish(NoInterrupt)
    \/ CmdExit

SpecSession == Init /\ [][NextSession]_vars

-----------------------------------------------------------------------------
(* Properties *)

\* the account-info fetch succeeded: 200 with a structured body or with a
\* "<balance> <nonce>" text body
AcctSucceeded(acct) ==
    /\ ~acct.exc /\ acct.status = 200
    /\ \/ acct.json
       \/ /\ Len(acct.parts) = 2
          /\ acct.parts[1].isdigit /\ acct.parts[2].isdigit
\* the pending-pool fetch succeeded
PoolSucceeded(staging) == ~staging.exc /\ staging.status = 200 /\ staging.json
\* the account-info fetch failed otherwise than by a 404
AcctFailed(acct) == acct.exc \/ acct.status \notin {200, 404}

\* C1: when both fetches of a get_status call succeed, the nonce it returns
\* is not lower than the highest nonce among the pool's transactions sent
\* by this wallet, for a structured and for a plain-text account answer.
C1_NonceCoversStaged ==
    (/\ status_call.called /\ status_call.fetched
     /\ AcctSucceeded(status_call.acct)
     /\ PoolSucceeded(status_call.staging))
    => \A tx \in status_call.staging.txs :
           tx.from = Me => status_call.ret.nonce >= tx.nonce

\* C2: the transactions a batch builds carry the nonces s, s+1, ... in
\* recipient-list order (s the refreshed nonce + 1), one per recipient,
\* whatever the submissions' outcomes and across chunks.
C2_BatchNonces ==
    /\ Len(batch.built) <= Len(batch.recipients)
    /\ \A j \in 1..Len(batch.built) :
           /\ batch.built[j].nonce = (batch.nonce + 1) + (j - 1)
           /\ batch.built[j].to_ = batch.recipients[j].to_
    /\ pc = "batch_done" => Len(batch.built) = Len(batch.recipients)

\* a batch of 7 is done, its second chunk built after a failure and a
\* raised exception in the first
C2_Witness ==
    /\ pc = "batch_done"
    /\ Len(batch.built) = 7
    /\ batch.built[7].nonce = batch.nonce + 7
    /\ batch.results[2].exc
    /\ ~batch.results[3].exc /\ ~batch.results[3].success

\* C3: the in-memory history never holds more than 50 entries.
C3_HistoryAtMost50 == Len(transaction_history) <= HISTORY_LIMIT

\* C4: no two entries of the in-memory history carry the same hash.
C4_HashesUnique ==
    \A i, j \in 1..Len(transaction_history) :
        transaction_history[i].hash = transaction_history[j].hash => i = j

\* the last step ran a history refresh that merged
Merged ==
    /\ history_call.called /\ history_call.fetched
    /\ history_call.resp.status = 200
    /\ history_call.resp.json /\ history_call.resp.recent

\* C5: right after a refresh that merged, no entry with a confirmation epoch
\* is timestamped more than one hour in the past.
C5_NoOldConfirmedAfterRefresh ==
    Merged => \A i \in 1..Len(transaction_history) :
                  ~IsPending(transaction_history[i])
                  => transaction_history[i].time >= now - ONE_HOUR

\* C6: a get_status call made less than 30 s after a successful resolution
\* that was not invalidated since returns the cached pair unchanged and
\* issues no request; so a second call within 5 s adds no round of fetches.
C6_CacheHit ==
    (/\ status_call.called
     /\ status_call.fresh # NoneVal
     /\ status_call.at - status_call.fresh < STATUS_TTL)
    => /\ ~status_call.fetched
       /\ status_call.ret.nonce = status_call.pre.nonce
       /\ status_call.ret.balance = status_call.pre.balance
       /\ status_call.post = status_call.pre
       /\ \A i \in 1..Len(requests) : requests[i][2] # "/balance"

\* a call 5 s after the resolution is answered from the cache
C6_Witness ==
    /\ status_call.called /\ ~status_call.fetched
    /\ status_call.fresh # NoneVal
    /\ status_call.at - status_call.fresh = 5
    /\ status_call.ret.nonce = MaxNonce

\* C7: when the account-info fetch fails otherwise than by a 404, the cached
\* nonce, balance and refresh time are unchanged whatever the pool answered,
\* and the call returns the unknown sentinel twice if none ever resolved.
C7_FailureKeepsCache ==
    (status_call.called /\ status_call.fetched /\ AcctFailed(status_call.acct))
    => /\ status_call.post = status_call.pre
       /\ current_nonce = status_call.pre.nonce
       /\ current_balance = status_call.pre.balance
       /\ last_update = status_call.pre.last_update
       /\ ~resolved_once => /\ status_call.ret.nonce = NoneVal
                            /\ status_call.ret.balance = NoneVal

\* the account fetch failed while the pool listed a higher nonce of ours
\* than the cached one
C7_Witness ==
    /\ status_call.called /\ status_call.fetched
    /\ AcctFailed(status_call.acct)
    /\ PoolSucceeded(status_call.staging)
    /\ status_call.pre.nonce # NoneVal
    /\ \E tx \in OurTxs(status_call.staging) : tx.nonce > status_call.pre.nonce

\* C8: a 404 of the account endpoint makes get_status return (0, 0.0),
\* overwriting the cache, and marks it fresh: a call within the next 30 s
\* is a cache hit.
C8_NotFoundIsEmptyAccount ==
    (/\ status_call.called /\ status_call.fetched
     /\ ~status_call.acct.exc /\ status_call.acct.status = 404)
    => /\ status_call.ret = [nonce |-> 0, balance |-> 0]
       /\ status_call.post =
              [nonce |-> 0, balance |-> 0, last_update |-> status_call.at]
       /\ current_nonce = 0 /\ current_balance = 0
       /\ \A d \in {0, 5, STATUS_TTL - 1}, acct \in AcctResponses :
              LET again == get_status(status_call.post.nonce,
                                      status_call.post.balance,
                                      status_call.post.last_update,
                                      status_call.at + d, acct, StagingRaised)
              IN  ~again.fetched /\ again.nonce = 0 /\ again.balance = 0

\* a 404 overwrote a cached nonce and balance
C8_Witness ==
    /\ status_call.called /\ status_call.fetched
    /\ ~status_call.acct.exc /\ status_call.acct.status = 404
    /\ status_call.pre.nonce > 0 /\ status_call.pre.balance > 0

\* a submission that returned success, not an exception nor a rejection
Accepted(r) == ~r.exc /\ r.success

\* C9 (tally): when the batch is done, success_count is the number of
\* accepted submissions, fail_count the number of failed ones, and they sum
\* to the number of recipients; 7 recipients with only #3 failing give 6 / 1.
C9_Tally ==
    pc = "batch_done" =>
        LET K == Len(batch.recipients)
            ok == {i \in 1..Len(batch.results) : Accepted(batch.results[i])}
        IN  /\ Len(batch.results) = K
            /\ batch.success_count = Cardinality(ok)
            /\ batch.fail_count = K - Cardinality(ok)
            /\ (K = 7 /\ ok = (1..7) \ {3})
               => batch.success_count = 6 /\ batch.fail_count = 1

\* C9 (isolation): while a chunk is gathered, a step changes one submission
\* only, and a resolved submission keeps its outcome.
C9_Isolated ==
    (pc = "batch_gather" /\ pc' = "batch_gather")
    => /\ Len(tasks') = Len(tasks)
       /\ \A j \in 1..Len(tasks) : tasks[j].done => tasks'[j] = tasks[j]
       /\ Cardinality({j \in 1..Len(tasks) : tasks'[j] # tasks[j]}) <= 1

\* C9: within a chunk a failing submission leaves its siblings alone, and
\* the final tally counts every submission once.
C9_BatchIsolationAndTally == []C9_Tally /\ [][C9_Isolated]_vars

\* 7 recipients, only #3 failed, the tally is 6 / 1
C9_Witness ==
    /\ pc = "batch_done"
    /\ Len(batch.recipients) = 7
    /\ \A i \in 1..7 : Accepted(batch.results[i]) <=> i # 3
    /\ batch.success_count = 6 /\ batch.fail_count = 1

\* submissions issued and not yet resolved
InFlight == {i \in 1..Len(tasks) : ~tasks[i].done}

\* C10: the recipients are sent in consecutive chunks of 5 (the last one the
\* remainder), a chunk is issued as a whole, no submission of a chunk is
\* issued before every submission of the chunk before has resolved, and at
\* most 5 submissions are in flight.
C10_Chunks ==
    /\ Cardinality(InFlight) <= batch_size
    /\ pc = "batch_gather" =>
           LET K == Len(batch.recipients)
               first == batch.batch_idx * batch_size
               rest == K - first
           IN  /\ Len(tasks) = (IF rest < batch_size THEN rest ELSE batch_size)
               /\ Len(tasks) >= 1
               /\ \A i \in 1..Len(tasks) :
                      tasks[i].tx.to_ = batch.recipients[first + i].to_
               /\ Len(batch.results) = first
               /\ Len(batch.built) = first + Len(tasks)
    /\ pc # "batch_gather" =>
           /\ tasks = <<>>
           /\ Len(batch.results) = Len(batch.built)

\* the second chunk of a batch of 7 is in flight: 2 submissions
C10_Witness ==
    /\ pc = "batch_gather"
    /\ batch.batch_idx = 1
    /\ Len(batch.recipients) = 7
    /\ Cardinality(InFlight) = 2
    /\ Len(requests) = 2

\* the nonces of the transactions the batch has built, in order
BuiltNonces == [j \in 1..Len(batch.built) |-> batch.built[j].nonce]

InBatch == pc \in {"batch_issue", "batch_gather", "batch_done"}

\* C11 (end state): a batch that is done has built and posted one
\* transaction for every recipient.
C11_AllBuilt ==
    pc = "batch_done" =>
        /\ Len(batch.built) = Len(batch.recipients)
        /\ Len(posted) = Len(batch.recipients)
        /\ Len(batch.results) = Len(batch.recipients)

\* C11 (step): when the results of a chunk are collected and recipients
\* remain, the next chunk is started, whatever failed in the chunk.
C11_NextChunkStarts ==
    (pc = "batch_gather" /\ pc' # "batch_gather")
    => (pc' = "batch_issue" <=>
            Len(batch.results) + Len(tasks) < Len(batch.recipients))

\* C11: a chunk with failed submissions neither blocks nor aborts the batch:
\* a confirmed batch of K recipients always ends having submitted all K.
C11_BatchSubmitsAll ==
    /\ []C11_AllBuilt
    /\ [][C11_NextChunkStarts]_vars
    /\ \A K \in 1..MaxRecipients :
           (pc = "batch_issue" /\ Len(batch.recipients) = K)
           ~> (pc = "batch_done" /\ Len(posted) = K)

\* a batch of 7 is done whose first chunk failed entirely
C11_Witness ==
    /\ pc = "batch_done"
    /\ Len(batch.recipients) = 7 /\ Len(posted) = 7
    /\ \A i \in 1..5 : ~Accepted(batch.results[i])
    /\ Accepted(batch.results[6]) /\ Accepted(batch.results[7])

\* the step that follows the end of a batch
AfterBatch == pc = "display" /\ posted # <<>> /\ ~send_call.called

\* C12 (step): the end of a batch resets the refresh time, so that every
\* get_status call would fetch, and the call that follows (the loop goes on
\* unless the stop flag is set) does fetch.
C12_Step ==
    /\ pc = "batch_done" =>
           /\ last_update' = 0
           /\ \A acct \in FewAcctResponses, staging \in FewStagingResponses :
                  get_status(current_nonce', current_balance', last_update',
                             now', acct, staging).fetched
    /\ (AfterBatch /\ ~stop_flag) =>
           /\ status_call'.called /\ status_call'.fetched
           /\ \E i \in 1..Len(requests') : requests'[i][2] = "/balance"

\* C12: when a batch send completes the account cache is invalidated,
\* whatever the number of successes, and the next get_status call fetches.
C12_BatchInvalidatesCache == [][C12_Step]_vars

\* a batch without a single success has ended; the cache still holds the
\* pair of the opening refresh, made at this very instant
C12_Witness ==
    /\ AfterBatch
    /\ transaction_history = <<>>
    /\ current_balance # NoneVal /\ current_nonce # NoneVal
    /\ last_update = 0

\* C13: every built transaction is posted exactly once: in a batch the
\* POSTs are those of the built transactions in order, in a single send it
\* is the one POST of the one transaction, whatever the outcome; no step
\* that reads an outcome posts anything.
C13_NoResubmission ==
    /\ InBatch => posted = BuiltNonces
    /\ send_call.called => posted = <<status_call.ret.nonce + 1>>
    /\ (~InBatch /\ ~send_call.called /\ ~AfterBatch) => posted = <<>>
    /\ pc # "batch_gather" \/ (\E i \in 1..Len(tasks) : tasks[i].done)
           => \A i \in 1..Len(requests) : requests[i][1] # "POST"
              \/ send_call.called

\* a batch of 7 is done with failed, raised and accepted submissions, 7 POSTs
C13_Witness ==
    /\ pc = "batch_done"
    /\ Len(posted) = 7
    /\ \E i, j, k \in 1..7 : /\ batch.results[i].exc
                              /\ ~batch.results[j].exc /\ ~batch.results[j].success
                              /\ Accepted(batch.results[k])

\* the outcome the response r should be classified into
IsStructuredAccept(r) == ~r.exc /\ r.status = 200 /\ r.json /\ r.accepted
IsOkWithHash(r) ==
    ~r.exc /\ r.status = 200 /\ ~r.json /\ r.ok_text /\ r.token # OkWord

\* C14: send_transaction returns success with the assigned hash for a
\* structured "accepted" body, success with the hash token for a text body
\* "ok <hash>", and failure with an error text for anything else.
C14_Classification ==
    send_call.called =>
        LET r == send_call.resp
            res == send_call.result
        IN  /\ IsStructuredAccept(r)
                => res.success /\ res.tx_hash = r.tx_hash
            /\ IsOkWithHash(r)
                => res.success /\ res.tx_hash = r.token
            /\ ~(IsStructuredAccept(r) \/ IsOkWithHash(r))
                => ~res.success /\ res.error # ""

\* the /tx/{hash} requests among the requests reqs
DetailHashes(reqs) ==
    {reqs[i][3] : i \in {j \in 1..Len(reqs) : reqs[j][2] = "/tx"}}

\* the number of entries of hist with the hash h
Count(hist, h) == Cardinality({i \in 1..Len(hist) : hist[i].hash = h})

\* C15 (step): a merging refresh requests no detail for a referenced hash
\* that the history already holds, and that hash has one entry afterwards.
C15_Step ==
    Merged' =>
        \A i \in 1..Len(history_call'.resp.refs) :
            LET h == history_call'.resp.refs[i].hash
            IN  h \in ExistingHashes(transaction_history)
                => /\ h \notin DetailHashes(requests')
                   /\ Count(transaction_history', h) = 1

\* C15: hashes already present locally are not fetched again and not
\* duplicated by a history refresh.
C15_KnownHashesNotRefetched == [][C15_Step]_vars

\* the reference endpoint answered 404 or with the empty-history text
IsEmptyHistoryAnswer(r) == r.status = 404 \/ (r.status = 200 /\ r.text /\ r.no_tx)

\* C16: a refresh whose reference request is answered 404 or "no
\* transactions" leaves the history empty and records the refresh.
C16_NotFoundClears ==
    (/\ history_call.called /\ history_call.fetched
     /\ IsEmptyHistoryAnswer(history_call.resp)
     /\ ~(history_call.resp.json /\ history_call.resp.recent))
    => /\ transaction_history = <<>>
       /\ last_history_update = history_call.at

\* a refresh succeeded less than 60 s before the call and was not
\* invalidated since, and the history is not empty
RecentlyRefreshed(call, hist) ==
    /\ call.fresh # NoneVal
    /\ call.at - call.fresh < HISTORY_TTL
    /\ hist # <<>>

\* C17 (step): a get_history call is skipped, without a request and without
\* a change, exactly when a refresh succeeded less than 60 s ago and the
\* history is not empty; otherwise it requests the reference list.
C17_Step ==
    history_call'.called =>
        IF RecentlyRefreshed(history_call', transaction_history)
        THEN /\ ~history_call'.fetched
             /\ transaction_history' = transaction_history
             /\ last_history_update' = last_history_update
             /\ \A i \in 1..Len(requests') :
                    requests'[i][2] \notin {"/address", "/tx"}
        ELSE /\ history_call'.fetched
             /\ \E i \in 1..Len(requests') : requests'[i][2] = "/address"

EntriesOf(hist, h) == {hist[i] : i \in {j \in 1..Len(hist) : hist[j].hash = h}}

\* C18 (step): when a merging refresh lists a confirmation epoch for a hash
\* whose local entry was appended by a send (no epoch), the hash has one
\* entry afterwards and that entry carries the epoch.
C18_Step ==
    Merged' =>
        \A i \in 1..Len(history_call'.resp.refs) :
            LET ref == history_call'.resp.refs[i]
            IN  (/\ ref.epoch # 0
                 /\ \E tx \in EntriesOf(transaction_history, ref.hash) :
                        tx.epoch = NoneVal)
                => /\ Count(transaction_history', ref.hash) = 1
                   /\ \A tx \in EntriesOf(transaction_history', ref.hash) :
                          tx.epoch = ref.epoch

\* C18: a pending local entry is updated in place when a history refresh
\* learns its confirmation epoch.
C18_PendingEntryConfirmed == [][C18_Step]_vars

\* the entries of a sequence, as a set
Range(hist) == {hist[i] : i \in 1..Len(hist)}

\* C19 (step): in a merging refresh an existing entry younger than one hour
\* or pending is retained, and a confirmed one older than one hour is
\* dropped (no list of the model reaches the truncation here).
C19_Step ==
    (Merged' /\ Len(transaction_history) + Len(history_call'.resp.refs)
                   <= HISTORY_LIMIT)
    => \A tx \in Range(transaction_history) :
           /\ (tx.time > now' - ONE_HOUR \/ IsPending(tx))
                  => tx \in Range(transaction_history')
           /\ (tx.time < now' - ONE_HOUR /\ ~IsPending(tx))
                  => tx \notin Range(transaction_history')

\* C19: the merge step retains an existing entry iff it is within the last
\* hour or still pending.
C19_RetentionRule == [][C19_Step]_vars

\* the reference request ended in a timeout, a connection failure or a
\* status outside 2xx other than 404
HistNetworkError(r) == r.status = 0 \/ (r.status >= 300 /\ r.status # 404)

\* C20 (step): a refresh whose reference request fails leaves the history
\* and the refresh time it found exactly as they were.
C20_Step ==
    (/\ history_call'.called /\ history_call'.fetched
     /\ HistNetworkError(history_call'.resp))
    => /\ transaction_history' = transaction_history
       /\ last_history_update' = history_call'.pre_update

\* C20: a failed history refresh never discards known-good entries nor
\* moves the refresh time.
C20_FailedRefreshKeepsHistory == [][C20_Step]_vars

\* a server error with a JSON reference list in its body met a non-empty
\* history refreshed 60 s before
C20_Witness ==
    /\ history_call.called /\ history_call.fetched
    /\ history_call.resp.status = 500 /\ history_call.resp.json
    /\ transaction_history # <<>>
    /\ history_call.pre_update = StartTime
    /\ last_history_update = StartTime
    /\ now = StartTime + HISTORY_TTL

\* a 200 answer of the account endpoint with an unstructured text body
IsTextAnswer(acct) == ~acct.exc /\ acct.status = 200 /\ ~acct.json

\* a text body of exactly two numeric tokens, "<balance> <nonce>"
IsWellFormedText(acct) ==
    /\ Len(acct.parts) = 2
    /\ acct.parts[1].isdigit /\ acct.parts[2].isdigit

\* C21: on a 200 text answer get_status adopts the pair of a well-formed
\* "<balance> <nonce>" body, and for any malformed text leaves the cached
\* nonce, balance and refresh time unchanged.
C21_MalformedTextIsNoUpdate ==
    (status_call.called /\ status_call.fetched /\ IsTextAnswer(status_call.acct))
    => IF IsWellFormedText(status_call.acct)
       THEN /\ status_call.ret.balance = status_call.acct.parts[1].val
            /\ status_call.ret.nonce = status_call.acct.parts[2].val
            /\ status_call.post.last_update = status_call.at
       ELSE status_call.post = status_call.pre

\* C22: the amount field of every built transaction is the decimal string
\* of round(amount * 1,000,000), the nearest count of micro-units; amount
\* 10.5 gives "10500000".
C22_AmountIsRounded ==
    \A j \in 1..Len(batch.built) :
        /\ batch.built[j].amount = RoundOf(Scaled(batch.recipients[j].amount))
        /\ batch.recipients[j].amount = 1050
               => batch.built[j].amount = 10500000

\* C23: a send command whose forced refresh returns the unknown nonce (no
\* fetch ever succeeded and this one failed) goes no further: it builds no
\* transaction, issues no POST to /send-tx, starts no batch and leaves the
\* history as it was
C23_Step ==
    (asked' # NoneVal /\ status_call'.called
        /\ status_call'.ret.nonce = NoneVal) =>
        /\ Posts(requests') = <<>>
        /\ posted' = <<>>
        /\ ~send_call'.called
        /\ batch' = NoBatch
        /\ tasks' = <<>>
        /\ pc' = "display"
        /\ transaction_history' = transaction_history

C23_RefusesWithoutNonce == [][C23_Step]_vars

\* a send command was given an amount, its refresh was attempted and failed,
\* and no fetch had succeeded before
C23_Witness ==
    /\ asked # NoneVal
    /\ status_call.called /\ status_call.fetched
    /\ status_call.ret.nonce = NoneVal
    /\ ~resolved_once
    /\ pc = "display"

\* the send command of the last step asked for more than the balance that
\* get_status returned to it
ExceedsBalance ==
    /\ asked # NoneVal
    /\ status_call.called
    /\ status_call.ret.balance # NoneVal
    /\ asked > status_call.ret.balance * CENTS

\* C24: a send whose amount (or summed total) exceeds the cached balance is
\* blocked without contacting the network: it builds no transaction, posts
\* nothing, and sends no request at all to the RPC service
C24_BlockedWithoutNetwork ==
    ExceedsBalance =>
        /\ posted = <<>>
        /\ ~send_call.called
        /\ batch = NoBatch
        /\ requests = <<>>

\* the pending-pool fetch failed, timed out or raised
PoolFailed(staging) == staging.exc \/ staging.status # 200

\* C25: when the pool fetch of a get_status call fails, times out or raises
\* while the account fetch returns structured data, the call still returns
\* and caches the reported nonce and balance and marks the cache fresh: a
\* call within the next 30 s is a cache hit
C25_PoolFailureIsolated ==
    (/\ status_call.called /\ status_call.fetched
     /\ ~status_call.acct.exc /\ IsStructured(status_call.acct)
     /\ PoolFailed(status_call.staging))
    => /\ status_call.ret = [nonce |-> status_call.acct.nonce,
                             balance |-> status_call.acct.balance]
       /\ status_call.post = [nonce |-> status_call.acct.nonce,
                              balance |-> status_call.acct.balance,
                              last_update |-> status_call.at]
       /\ current_nonce = status_call.acct.nonce
       /\ current_balance = status_call.acct.balance
       /\ last_update = status_call.at
       /\ \A d \in {0, 5, STATUS_TTL - 1}, acct \in AcctResponses :
              LET again == get_status(current_nonce, current_balance,
                                      last_update, status_call.at + d, acct,
                                      StagingRaised)
              IN  /\ ~again.fetched
                  /\ again.nonce = status_call.acct.nonce
                  /\ again.balance = status_call.acct.balance

\* the pool fetch raised while the account fetch reported a nonce above the
\* cached one
C25_Witness ==
    /\ status_call.called /\ status_call.fetched
    /\ ~status_call.acct.exc /\ IsStructured(status_call.acct)
    /\ status_call.staging.exc
    /\ status_call.pre.nonce # NoneVal
    /\ status_call.acct.nonce > status_call.pre.nonce

\* what a send does to its spinner, and the messages that display its result
SpinnerEvents == {"spinner started", "spinner cancelled", "spinner returned"}
ResultMessages == {"accepted", "failed", "tally"}

\* the last thing that happened to the spinner in the log, "none" when no
\* spinner was started
LastSpinnerEvent(log) ==
    LET at == {i \in 1..Len(log) : log[i] \in SpinnerEvents}
    IN  IF at = {} THEN "none" ELSE log[SetMax(at)]

\* C26: in the single and in the batch send, when the result of the
\* operation is displayed (the accepted or failed message, the final tally)
\* the spinner started for it has been cancelled and has returned; none is
\* still running
C26_SpinnerStoppedBeforeResult ==
    \A i \in 1..Len(screen) :
        screen[i] \in ResultMessages =>
            LastSpinnerEvent(SubSeq(screen, 1, i - 1)) = "spinner returned"

\* a single send has failed and displayed its failure
C26_Witness ==
    /\ send_call.called /\ ~send_call.result.success
    /\ screen # <<>>
    /\ screen[Len(screen)] = "failed"

\* C27 (step): the stop flag, once set, stays set; with the flag set the
\* loop test leads to the exit, without a request and without a command
\* prompt; the submissions in flight when the flag is up are neither dropped
\* nor undone: they stay until each has resolved and the chunk is collected
C27_Step ==
    /\ stop_flag => stop_flag'
    /\ (stop_flag /\ pc = "display") =>
           /\ pc' = "exit"
           /\ requests' = <<>>
           /\ ~status_call'.called /\ ~history_call'.called
    /\ stop_flag' => pc' # "prompt"
    /\ (stop_flag /\ pc = "batch_gather") =>
           \/ /\ pc' = "batch_gather"
              /\ Len(tasks') = Len(tasks)
              /\ \A i \in 1..Len(tasks) : tasks[i].done => tasks'[i] = tasks[i]
           \/ /\ pc' \in {"batch_issue", "batch_done"}
              /\ \A i \in 1..Len(tasks) : tasks[i].done
              /\ batch'.results =
                     batch.results \o [i \in 1..Len(tasks) |-> tasks[i].result]

\* C27: once a console read is interrupted the stop flag is set and stays
\* set, the main loop exits at its next test of the flag without starting
\* another command, and the network operations in flight are left to end
C27_StopSignal == [][C27_Step]_vars

\* a read of the batch screen was interrupted, the batch was confirmed all
\* the same, and one of its submissions has resolved while others are in
\* flight
C27_Witness ==
    /\ stop_flag
    /\ pc = "batch_gather"
    /\ \E i, j \in 1..Len(tasks) : tasks[i].done /\ ~tasks[j].done

\* C28: every send forces a refresh and builds its first transaction with
\* the refreshed nonce + 1; against a service that answers each refresh with
\* structured data and a readable pool and reflects every accepted
\* transaction in the confirmed nonce or in the pool, each accepted
\* transaction carries a nonce above every nonce accepted before it in the
\* session, so no two of them share one
C28_AcceptedNoncesDistinct ==
    /\ send_call.called =>
           /\ status_call.called /\ status_call.fetched
           /\ posted = <<status_call.ret.nonce + 1>>
    /\ (pc = "batch_issue" /\ status_call.called) =>
           /\ status_call.fetched
           /\ batch.nonce = status_call.ret.nonce
    /\ batch.built # <<>> => batch.built[1].nonce = batch.nonce + 1
    /\ ~acceptances.repeated

\* a second send is accepted while the pool still holds a transaction
\* accepted earlier in the session, above the confirmed nonce
C28_Witness ==
    /\ sends > 1
    /\ send_call.called /\ send_call.result.success
    /\ \E tx \in OurTxs(status_call.staging) : tx.nonce > status_call.acct.nonce
    /\ acceptances.top > 1

\* the service accepted the submission: a structured "accepted" body, or
\* the text "ok <hash>"; and the hash its body carries
NetworkAccepted(r) == IsStructuredAccept(r) \/ IsOkWithHash(r)
ReturnedHash(r) == IF r.json THEN r.tx_hash ELSE r.token

\* the results of a gathered chunk that are acceptances, in order
AcceptedResults(ts) ==
    LET Ok(t) == ~t.result.exc /\ t.result.success
    IN  SelectSeq(ts, Ok)

\* C29 (step): a single send appends one outgoing entry without epoch, keyed
\* by the hash the service returned, and resets the refresh time when the
\* service accepted it; otherwise it leaves the history as it was and the
\* cache as the opening refresh left it.  The result loop of a chunk appends
\* one such entry for each accepted submission, in order, and nothing for
\* the others; no other step of a send touches the history.
C29_Step ==
    /\ send_call'.called =>
           IF NetworkAccepted(send_call'.resp)
           THEN /\ transaction_history' =
                       Append(transaction_history,
                              Entry(now', ReturnedHash(send_call'.resp), "out",
                                    NoneVal))
                /\ last_update' = 0
           ELSE /\ transaction_history' = transaction_history
                /\ last_update' = status_call'.post.last_update
                /\ current_nonce' = status_call'.post.nonce
                /\ current_balance' = status_call'.post.balance
    /\ (pc = "batch_gather" /\ pc' # "batch_gather") =>
           LET ok == AcceptedResults(tasks)
           IN  /\ Len(ok) = Successes([i \in 1..Len(tasks) |-> tasks[i].result])
               /\ transaction_history' =
                      transaction_history \o
                      [k \in 1..Len(ok) |->
                          Entry(now', ok[k].result.tx_hash, "out", NoneVal)]
    /\ (\/ pc \in {"batch_issue", "batch_done"}
        \/ pc = "batch_gather" /\ pc' = "batch_gather"
        \/ asked' # NoneVal /\ ~send_call'.called) =>
           transaction_history' = transaction_history

\* C29: a submission changes the local history only when it is accepted:
\* one outgoing pending entry keyed by the returned hash for each accepted
\* single or batch submission, nothing for a failed one; an accepted single
\* send also invalidates the cache, a failed one does not
C29_HistoryOnlyOnAcceptance == [][C29_Step]_vars

====
